---- MODULE Spec2Model ----
(***************************************************************************)
(* Model of src/src/components/TitanicPredictor.tsx: the CSV parser, the   *)
(* rule-based survival scorer, the dataset summary and the component's     *)
(* state (data, modelStats, prediction, loading, input).                   *)
(*                                                                         *)
(* JavaScript values are records [t, n, s]: t is the type tag, n the       *)
(* number (for t = "num"), s the string as a sequence of one-character     *)
(* strings (for t = "str").  Scores and probabilities are kept in          *)
(* hundredths (0.35 is 35), so the additive rules are exact; the verdict   *)
(* probability > 0.5 computed in IEEE doubles agrees with the exact one on *)
(* all 162 rule combinations.                                              *)
(***************************************************************************)
EXTENDS Integers, Sequences, FiniteSets, TLC

VARIABLES data, modelStats, prediction, loading, input,
          pc, csvText, predictedFrom, edits,
          passenger, result, twinResult, lineParts, fields

vars == <<data, modelStats, prediction, loading, input,
          pc, csvText, predictedFrom, edits,
          passenger, result, twinResult, lineParts, fields>>

(***************************************************************************)
(* JavaScript values                                                       *)
(***************************************************************************)
Num(k) == [t |-> "num", n |-> k, s |-> <<>>]
Str(chars) == [t |-> "str", n |-> 0, s |-> chars]
NaN == [t |-> "nan", n |-> 0, s |-> <<>>]
Null == [t |-> "null", n |-> 0, s |-> <<>>]
Undef == [t |-> "undef", n |-> 0, s |-> <<>>]

\* ToBoolean: 0, NaN, null, undefined and '' are falsy.
Truthy(v) ==
  CASE v.t = "num" -> v.n # 0
    [] v.t = "str" -> v.s # <<>>
    [] OTHER -> FALSE

\* a || b
OrElse(a, b) == IF Truthy(a) THEN a ELSE b

\* a < k and a > k for a numeric literal k: false unless a is a number
\* (a comparison with NaN is false).
LessThan(a, k) == a.t = "num" /\ a.n < k
GreaterThan(a, k) == a.t = "num" /\ a.n > k
GreaterEq(a, k) == a.t = "num" /\ a.n >= k

\* a + b on numbers; NaN if an operand is not a number.
Plus(a, b) == IF a.t = "num" /\ b.t = "num" THEN Num(a.n + b.n) ELSE NaN

\* a === k for a numeric literal k
StrictEqNum(a, k) == a.t = "num" /\ a.n = k

\* Property names and string literals of the source, as character sequences.
kPassengerId == <<"P","a","s","s","e","n","g","e","r","I","d">>
kSurvived == <<"S","u","r","v","i","v","e","d">>
kPclass == <<"P","c","l","a","s","s">>
kSex == <<"S","e","x">>
kAge == <<"A","g","e">>
kSibSp == <<"S","i","b","S","p">>
kParch == <<"P","a","r","c","h">>
kFare == <<"F","a","r","e">>
kEmbarked == <<"E","m","b","a","r","k","e","d">>
sFemale == <<"f","e","m","a","l","e">>
sMale == <<"m","a","l","e">>

\* obj.key : undefined when the object has no such property.
Get(obj, key) == IF key \in DOMAIN obj THEN obj[key] ELSE Undef

(***************************************************************************)
(* predictSurvival                                                         *)
(***************************************************************************)
\* Variant: the female branch adds 0.25 instead of 0.35.
SexAdjWeak(p) == IF Get(p, kSex) = Str(sFemale) THEN 25 ELSE -25

SexAdj(p) == IF Get(p, kSex) = Str(sFemale) THEN 35 ELSE -25

ClassAdj(p) ==
  IF StrictEqNum(Get(p, kPclass), 1) THEN 20
  ELSE IF StrictEqNum(Get(p, kPclass), 2) THEN 5
  ELSE -15

AgeAdj(p) ==
  LET age == OrElse(Get(p, kAge), Num(30))
  IN IF LessThan(age, 16) THEN 10
     ELSE IF GreaterThan(age, 60) THEN -10
     ELSE 0

\* Variant: the counts are added without the || 0 defaults.
FamilySizeNoDefault(p) == Plus(Get(p, kSibSp), Get(p, kParch))

FamilySize(p) == Plus(OrElse(Get(p, kSibSp), Num(0)), OrElse(Get(p, kParch), Num(0)))

FamilyAdj(p) ==
  LET familySize == FamilySize(p)
  IN IF GreaterThan(familySize, 0) /\ LessThan(familySize, 4) THEN 5
     ELSE IF GreaterEq(familySize, 4) THEN -10
     ELSE 0

FareAdj(p) ==
  LET fare == OrElse(Get(p, kFare), Num(15))
  IN IF GreaterThan(fare, 50) THEN 10
     ELSE IF LessThan(fare, 10) THEN -5
     ELSE 0

Score(p) == 50 + SexAdj(p) + ClassAdj(p) + AgeAdj(p) + FamilyAdj(p) + FareAdj(p)

Min2(a, b) == IF a < b THEN a ELSE b
Max2(a, b) == IF a > b THEN a ELSE b

\* Variant: Math.max(0, score), the upper clamp forgotten.
ClampLowerOnly(score) == Max2(0, score)

\* Math.max(0, Math.min(1, score))
Clamp(score) == Max2(0, Min2(100, score))

predictSurvival(p) ==
  LET probability == Clamp(Score(p))
  IN [probability |-> probability, survived |-> probability > 50]

(***************************************************************************)
(* parseCSV and parseCSVLine                                               *)
(***************************************************************************)
IsSpace(c) == c \in {" ", "\n"}

SubStr(s, from, to) == [i \in 1..(to - from + 1) |-> s[from + i - 1]]

\* String.prototype.trim: whitespace removed at both ends.
Trim(s) ==
  LET keep == {i \in 1..Len(s) : ~IsSpace(s[i])}
  IN IF keep = {} THEN <<>>
     ELSE SubStr(s, CHOOSE i \in keep : \A j \in keep : i <= j,
                    CHOOSE i \in keep : \A j \in keep : i >= j)

RECURSIVE SplitAcc(_, _, _, _, _)
SplitAcc(s, sep, i, current, acc) ==
  IF i > Len(s) THEN Append(acc, current)
  ELSE IF s[i] = sep THEN SplitAcc(s, sep, i + 1, <<>>, Append(acc, current))
  ELSE SplitAcc(s, sep, i + 1, Append(current, s[i]), acc)

\* String.prototype.split with a one-character separator: ''.split(sep) is [''].
Split(s, sep) == SplitAcc(s, sep, 1, <<>>, <<>>)

RECURSIVE ScanLine(_, _, _, _, _)
ScanLine(line, i, current, inQuotes, res) ==
  IF i > Len(line) THEN Append(res, current)
  ELSE IF line[i] = "\"" THEN ScanLine(line, i + 1, current, ~inQuotes, res)
  ELSE IF line[i] = "," /\ ~inQuotes THEN ScanLine(line, i + 1, <<>>, inQuotes, Append(res, current))
  ELSE ScanLine(line, i + 1, Append(current, line[i]), inQuotes, res)

\* Variant: every comma separates, quoted or not.
parseCSVLineNoQuotes(line) == Split(SelectSeq(line, LAMBDA c : c # "\""), ",")

parseCSVLine(line) == ScanLine(line, 1, <<>>, FALSE, <<>>)

\* value.replace(/"/g, '')
StripQuotes(s) == SelectSeq(s, LAMBDA c : c # "\"")

\* values[index]?.replace(/"/g, '') || ''   (index counted from 1 here)
ValueAt(values, index) == IF index <= Len(values) THEN StripQuotes(values[index]) ELSE <<>>

Digits == <<"0", "1", "2", "3", "4", "5", "6", "7", "8", "9">>
IsDigit(c) == \E d \in 1..10 : Digits[d] = c
DigitVal(c) == (CHOOSE d \in 1..10 : Digits[d] = c) - 1

RECURSIVE SkipSpace(_, _)
SkipSpace(s, i) == IF i <= Len(s) /\ IsSpace(s[i]) THEN SkipSpace(s, i + 1) ELSE i

RECURSIVE ReadDigits(_, _, _)
ReadDigits(s, i, acc) ==
  IF i <= Len(s) /\ IsDigit(s[i]) THEN ReadDigits(s, i + 1, 10 * acc + DigitVal(s[i])) ELSE acc

\* The decimal prefix both parseInt and parseFloat read: leading whitespace, an
\* optional sign, then digits; NaN when no digit follows.  (Strings with a
\* radix prefix, a fraction, an exponent or "Infinity" are outside the model's
\* alphabets.)
ParseDecimalPrefix(s) ==
  LET i == SkipSpace(s, 1)
      signed == i <= Len(s) /\ s[i] \in {"-", "+"}
      j == IF signed THEN i + 1 ELSE i
      magnitude == ReadDigits(s, j, 0)
  IN IF j <= Len(s) /\ IsDigit(s[j])
     THEN Num(IF signed /\ s[i] = "-" THEN 0 - magnitude ELSE magnitude)
     ELSE NaN

parseInt(s) == ParseDecimalPrefix(s)
parseFloat(s) == ParseDecimalPrefix(s)

IntHeaders == {kPassengerId, kSurvived, kPclass, kSibSp, kParch}
FloatHeaders == {kAge, kFare}

\* The switch (header) of parseCSV.
Coerce(header, value) ==
  IF header \in IntHeaders THEN OrElse(parseInt(value), Num(0))
  ELSE IF header \in FloatHeaders THEN (IF value # <<>> THEN parseFloat(value) ELSE Null)
  ELSE Str(value)

\* headers.forEach(...): a later column of the same name overwrites an earlier one.
RECURSIVE BuildPassenger(_, _, _)
BuildPassenger(headers, values, k) ==
  IF k = 0 THEN <<>>
  ELSE LET prev == BuildPassenger(headers, values, k - 1)
           header == headers[k]
       IN [key \in (DOMAIN prev) \cup {header} |->
             IF key = header THEN Coerce(header, ValueAt(values, k)) ELSE prev[key]]

ParseRow(headers, line) == BuildPassenger(headers, parseCSVLine(line), Len(headers))

\* Variant: empty lines are filtered out before the rows are mapped.
parseCSVSkipBlank(text) ==
  LET lines == Split(Trim(text), "\n")
      headers == Split(lines[1], ",")
      rows == SelectSeq(SubStr(lines, 2, Len(lines)), LAMBDA l : l # <<>>)
  IN [i \in 1..Len(rows) |-> ParseRow(headers, rows[i])]

parseCSV(text) ==
  LET lines == Split(Trim(text), "\n")
      headers == Split(lines[1], ",")
  IN [i \in 1..(Len(lines) - 1) |-> ParseRow(headers, lines[i + 1])]

(***************************************************************************)
(* calculateModelStats                                                     *)
(***************************************************************************)
\* Variant: every label other than 1 is taken as a death.
IsCorrectLoose(p) ==
  LET predicted == predictSurvival(p)
  IN predicted.survived = StrictEqNum(Get(p, kSurvived), 1)

IsCorrect(p) ==
  LET predicted == predictSurvival(p)
  IN \/ predicted.survived /\ StrictEqNum(Get(p, kSurvived), 1)
     \/ ~predicted.survived /\ StrictEqNum(Get(p, kSurvived), 0)

RECURSIVE CountCorrect(_, _)
CountCorrect(passengers, k) ==
  IF k = 0 THEN 0
  ELSE CountCorrect(passengers, k - 1) + (IF IsCorrect(passengers[k]) THEN 1 ELSE 0)

SurvivedCount(passengers) ==
  Len(SelectSeq(passengers, LAMBDA p : StrictEqNum(Get(p, kSurvived), 1)))

\* accuracy = (correctPredictions / totalPassengers) * 100 is kept as the exact
\* fraction num/den; 0/0 is NaN.
calculateModelStats(passengers) ==
  LET totalPassengers == Len(passengers)
      survivedCount == SurvivedCount(passengers)
      correctPredictions == CountCorrect(passengers, Len(passengers))
  IN [accuracy |-> [nan |-> totalPassengers = 0,
                    num |-> 100 * correctPredictions,
                    den |-> totalPassengers],
      totalPassengers |-> totalPassengers,
      survivedCount |-> survivedCount,
      deathCount |-> totalPassengers - survivedCount]

(***************************************************************************)
(* The component TitanicPredictor: state, the one-shot load, the form      *)
(* handlers and handlePredict.                                             *)
(***************************************************************************)
MaxEdits == 2

\* Files the fetch can deliver: empty, header only, rows with quoted names,
\* a row with missing fields, a blank trailing line.
comma == <<",">>
newline == <<"\n">>
kName == <<"N","a","m","e">>
FileHeader == kSurvived \o comma \o kName \o comma \o kSex \o comma \o kPclass
RowFemale == <<"1", ",", "\"", "A", ",", "B", "\"", ",">> \o sFemale \o <<",", "1">>
RowMale == <<"0", ",", "C", ",">> \o sMale \o <<",", "3">>
RowShort == <<"1">>
FetchTexts ==
  { <<>>,
    FileHeader,
    FileHeader \o newline \o RowFemale \o newline,
    FileHeader \o newline \o RowFemale \o newline \o RowMale,
    FileHeader \o newline \o RowShort \o newline \o RowMale \o newline }

AgeEntries == { <<>>, <<"0">>, <<"1", "2">>, <<"7", "0">> }
FareEntries == { <<>>, <<"0">>, <<"8", "0">> }
CountEntries == { <<>>, <<"1">>, <<"4">> }
ClassOptions == { <<"1">>, <<"2">>, <<"3">> }
SexOptions == { sMale, sFemale }
EmbarkedOptions == { <<"S">>, <<"C">>, <<"Q">> }

InitialInput ==
  [pclass |-> Num(3), sex |-> Str(sMale), age |-> Num(30), sibsp |-> Num(0),
   parch |-> Num(0), fare |-> Num(15), embarked |-> Str(<<"S">>)]

\* The object literal handlePredict passes to predictSurvival.
FormPassenger(in) ==
  [key \in {kSex, kPclass, kAge, kSibSp, kParch, kFare, kEmbarked} |->
     CASE key = kSex -> in.sex
       [] key = kPclass -> in.pclass
       [] key = kAge -> in.age
       [] key = kSibSp -> in.sibsp
       [] key = kParch -> in.parch
       [] key = kFare -> in.fare
       [] OTHER -> in.embarked]

harnessVars == <<passenger, result, twinResult, lineParts, fields>>
loadVars == <<data, modelStats, loading, pc, csvText>>

HarnessIdle ==
  /\ passenger = <<>>
  /\ result = Null
  /\ twinResult = Null
  /\ lineParts = <<>>
  /\ fields = <<>>

ComponentInit ==
  /\ data = <<>>
  /\ modelStats = Null
  /\ prediction = Null
  /\ loading = TRUE
  /\ input = InitialInput
  /\ predictedFrom = Null
  /\ edits = 0

Init ==
  /\ ComponentInit
  /\ csvText = <<>>
  /\ pc = "fetching"
  /\ HarnessIdle

\* loadData, try branch: fetch and response.text() succeed.
LoadSuccess ==
  /\ pc = "fetching"
  /\ \E text \in FetchTexts :
       /\ csvText' = text
       /\ data' = parseCSV(text)
       /\ modelStats' = calculateModelStats(parseCSV(text))
  /\ loading' = FALSE
  /\ pc' = "ready"
  /\ UNCHANGED <<prediction, input, predictedFrom, edits, harnessVars>>

\* Variant: the catch branch logs the error and leaves loading set.
LoadFailureStuck ==
  /\ pc = "fetching"
  /\ pc' = "failed"
  /\ UNCHANGED <<data, modelStats, loading, csvText, prediction, input, predictedFrom, edits,
                 passenger, result, twinResult, lineParts, fields>>

\* loadData, catch branch: fetch or response.text() rejects.
LoadFailure ==
  /\ pc = "fetching"
  /\ loading' = FALSE
  /\ pc' = "failed"
  /\ UNCHANGED <<data, modelStats, csvText, prediction, input, predictedFrom, edits, harnessVars>>

\* Variant: an edit also clears the displayed prediction.
SetInputClearing(next) ==
  /\ ~loading
  /\ edits < MaxEdits
  /\ input' = next
  /\ edits' = edits + 1
  /\ prediction' = Null
  /\ UNCHANGED <<data, modelStats, loading, pc, csvText, predictedFrom,
                 passenger, result, twinResult, lineParts, fields>>

\* setInput({...input, field: value}); the form is rendered only when loading is false.
SetInput(next) ==
  /\ ~loading
  /\ edits < MaxEdits
  /\ input' = next
  /\ edits' = edits + 1
  /\ UNCHANGED <<loadVars, prediction, predictedFrom, harnessVars>>

EditPclass == \E v \in ClassOptions : SetInput([input EXCEPT !.pclass = parseInt(v)])
EditSex == \E v \in SexOptions : SetInput([input EXCEPT !.sex = Str(v)])
EditAge == \E v \in AgeEntries : SetInput([input EXCEPT !.age = parseInt(v)])
EditFare == \E v \in FareEntries : SetInput([input EXCEPT !.fare = parseFloat(v)])
EditSibsp == \E v \in CountEntries : SetInput([input EXCEPT !.sibsp = parseInt(v)])
EditParch == \E v \in CountEntries : SetInput([input EXCEPT !.parch = parseInt(v)])
EditEmbarked == \E v \in EmbarkedOptions : SetInput([input EXCEPT !.embarked = Str(v)])

handlePredict ==
  /\ ~loading
  /\ prediction' = predictSurvival(FormPassenger(input))
  /\ predictedFrom' = input
  /\ UNCHANGED <<loadVars, input, edits, harnessVars>>

Next ==
  \/ LoadSuccess
  \/ LoadFailure
  \/ EditPclass
  \/ EditSex
  \/ EditAge
  \/ EditFare
  \/ EditSibsp
  \/ EditParch
  \/ EditEmbarked
  \/ handlePredict

Spec == Init /\ [][Next]_vars

\* The fetch promise settles: it resolves or rejects.
FairSpec == Spec /\ WF_vars(LoadSuccess \/ LoadFailure)

(***************************************************************************)
(* predictSurvival applied to attribute sets drawn from bounded sets       *)
(***************************************************************************)
SexValues == { Str(sMale), Str(sFemale), Str(<<"x">>), Undef }
ClassValues == { Num(1), Num(2), Num(3), Undef }
AgeValues == { Num(-1), Num(0), Num(15), Num(16), Num(60), Num(61), NaN, Null, Undef }
CountValues == { Num(0), Num(1), Num(2), Num(4), NaN, Undef }
FareValues == { Num(-1), Num(0), Num(9), Num(10), Num(50), Num(51), NaN, Null, Undef }
EmbarkedValues == { Str(<<"S">>), Undef }

\* The object with the given property values; undefined means the property is absent.
MakePassenger(sex, pclass, age, sibsp, parch, fare, embarked) ==
  LET all == [key \in {kSex, kPclass, kAge, kSibSp, kParch, kFare, kEmbarked} |->
                CASE key = kSex -> sex
                  [] key = kPclass -> pclass
                  [] key = kAge -> age
                  [] key = kSibSp -> sibsp
                  [] key = kParch -> parch
                  [] key = kFare -> fare
                  [] OTHER -> embarked]
  IN [key \in {k \in DOMAIN all : all[k] # Undef} |-> all[key]]

\* The same attribute set with the other sex.
SexTwin(p) ==
  [p EXCEPT ![kSex] = IF p[kSex] = Str(sMale) THEN Str(sFemale) ELSE Str(sMale)]

HasBinarySex(p) == Get(p, kSex) \in {Str(sMale), Str(sFemale)}

componentVars == <<data, modelStats, prediction, loading, input, csvText, predictedFrom, edits>>

ScorerInit ==
  /\ ComponentInit
  /\ csvText = <<>>
  /\ pc = "scorer"
  /\ \E sex \in SexValues, pclass \in ClassValues, age \in AgeValues, sibsp \in CountValues,
        parch \in CountValues, fare \in FareValues, embarked \in EmbarkedValues :
       passenger = MakePassenger(sex, pclass, age, sibsp, parch, fare, embarked)
  /\ result = Null
  /\ twinResult = Null
  /\ lineParts = <<>>
  /\ fields = <<>>

ScorePassenger ==
  /\ pc = "scorer"
  /\ result = Null
  /\ result' = predictSurvival(passenger)
  /\ UNCHANGED <<componentVars, pc, passenger, twinResult, lineParts, fields>>

ScoreTwin ==
  /\ pc = "scorer"
  /\ twinResult = Null
  /\ HasBinarySex(passenger)
  /\ twinResult' = predictSurvival(SexTwin(passenger))
  /\ UNCHANGED <<componentVars, pc, passenger, result, lineParts, fields>>

ScorerNext == ScorePassenger \/ ScoreTwin

SpecScorer == ScorerInit /\ [][ScorerNext]_vars

(***************************************************************************)
(* parseCSV applied to texts drawn from a bounded set                      *)
(***************************************************************************)
MaxBody == 5

CsvAlphabet == {"1", "x", ",", "\"", "\n", " "}

HeaderLines ==
  { kSurvived \o comma \o kAge,
    kFare \o comma \o kParch \o comma \o kSex }

Strings(alphabet, maxLen) == UNION { [1..n -> alphabet] : n \in 0..maxLen }

CsvInit ==
  /\ ComponentInit
  /\ pc = "text"
  /\ \E h \in HeaderLines, body \in Strings(CsvAlphabet, MaxBody) : csvText = h \o body
  /\ HarnessIdle

ParseText ==
  /\ pc = "text"
  /\ data' = parseCSV(csvText)
  /\ pc' = "parsed"
  /\ UNCHANGED <<modelStats, prediction, loading, input, csvText, predictedFrom, edits, harnessVars>>

CsvNext == ParseText

SpecCsv == CsvInit /\ [][CsvNext]_vars

(***************************************************************************)
(* parseCSVLine and the quote stripping applied to a line with one quoted  *)
(* field                                                                   *)
(***************************************************************************)
MaxField == 1
MaxSide == 1
MaxInner == 3

PlainFields(maxLen) == Strings({"a", " "}, maxLen)
QuotedContents(maxLen) == { q \in Strings({"a", ","}, maxLen) : \E i \in 1..Len(q) : q[i] = "," }
FieldLists(maxFields, maxLen) == UNION { [1..n -> PlainFields(maxLen)] : n \in 0..maxFields }

RECURSIVE JoinFields(_, _)
JoinFields(fs, k) ==
  IF k = 0 THEN <<>>
  ELSE IF k = 1 THEN fs[1]
  ELSE JoinFields(fs, k - 1) \o comma \o fs[k]

\* The line written from the fields before, the quoted field and the fields after.
WrittenLine(parts) ==
  LET quoted == <<"\"">> \o parts.inner \o <<"\"">>
      all == parts.before \o <<quoted>> \o parts.after
  IN JoinFields(all, Len(all))

LineInit ==
  /\ ComponentInit
  /\ csvText = <<>>
  /\ pc = "line"
  /\ lineParts \in [before : FieldLists(MaxSide, MaxField),
                     inner : QuotedContents(MaxInner),
                     after : FieldLists(MaxSide, MaxField)]
  /\ passenger = <<>>
  /\ result = Null
  /\ twinResult = Null
  /\ fields = <<>>

\* const values = parseCSVLine(line), then value = values[index]?.replace(/"/g, '') || ''.
ParseLine ==
  /\ pc = "line"
  /\ LET values == parseCSVLine(WrittenLine(lineParts))
     IN fields' = [i \in 1..Len(values) |-> ValueAt(values, i)]
  /\ pc' = "split"
  /\ UNCHANGED <<componentVars, passenger, result, twinResult, lineParts>>

LineNext == ParseLine

SpecLine == LineInit /\ [][LineNext]_vars

(***************************************************************************)
(* calculateModelStats applied to record sequences drawn from a bounded set*)
(***************************************************************************)
MaxRecords == 3

LabelledPassengers ==
  { MakePassenger(sex, pclass, Undef, Undef, Undef, Undef, Undef) @@ extra :
      sex \in {Str(sMale), Str(sFemale)}, pclass \in {Num(1), Num(3)},
      extra \in {<<>>} \cup { (kSurvived :> Num(v)) : v \in {0, 1, 2} } }

StatsInit ==
  /\ data \in UNION { [1..n -> LabelledPassengers] : n \in 0..MaxRecords }
  /\ modelStats = Null
  /\ prediction = Null
  /\ loading = TRUE
  /\ input = InitialInput
  /\ csvText = <<>>
  /\ predictedFrom = Null
  /\ edits = 0
  /\ pc = "records"
  /\ HarnessIdle

Summarize ==
  /\ pc = "records"
  /\ modelStats' = calculateModelStats(data)
  /\ pc' = "summarized"
  /\ UNCHANGED <<data, prediction, loading, input, csvText, predictedFrom, edits, harnessVars>>

StatsNext == Summarize

SpecStats == StatsInit /\ [][StatsNext]_vars

(***************************************************************************)
(* Properties of predictSurvival (checked under SpecScorer)                *)
(***************************************************************************)
IsResult(r) == r # Null

\* C1: for every input (any sex, any class; age, counts and fare a number, NaN,
\* null or absent) the call returns, and the probability returned is a number
\* p with 0 <= p <= 1 (0..100 in hundredths).
C1_ProbabilityInUnitInterval ==
  /\ IsResult(result) => result.probability \in 0..100 /\ result.survived \in BOOLEAN
  /\ IsResult(twinResult) => twinResult.probability \in 0..100 /\ twinResult.survived \in BOOLEAN

\* C1 witness: the wholly empty attribute set has been scored.
C1_Witness == IsResult(result) /\ DOMAIN passenger = {}

\* The adjustments as the claim C2 states them, on present values.
ClaimSexAdj(sex) == IF sex = Str(sFemale) THEN 35 ELSE -25
ClaimClassAdj(pclass) == IF pclass = Num(1) THEN 20 ELSE IF pclass = Num(2) THEN 5 ELSE -15
ClaimAgeAdj(age) == IF age < 16 THEN 10 ELSE IF age > 60 THEN -10 ELSE 0
ClaimFamilyAdj(size) == IF 0 < size /\ size < 4 THEN 5 ELSE IF size >= 4 THEN -10 ELSE 0
ClaimFareAdj(fare) == IF fare > 50 THEN 10 ELSE IF fare < 10 THEN -5 ELSE 0
ClaimClamp(x) == IF x < 0 THEN 0 ELSE IF x > 100 THEN 100 ELSE x

IsNonNegative(v) == v.t = "num" /\ v.n >= 0

AllPresent(p) ==
  /\ Get(p, kSex).t = "str"
  /\ Get(p, kPclass).t = "num"
  /\ IsNonNegative(Get(p, kAge))
  /\ IsNonNegative(Get(p, kSibSp))
  /\ IsNonNegative(Get(p, kParch))
  /\ IsNonNegative(Get(p, kFare))

ClaimProbability(p) ==
  ClaimClamp(50 + ClaimSexAdj(p[kSex]) + ClaimClassAdj(p[kPclass]) + ClaimAgeAdj(p[kAge].n)
                + ClaimFamilyAdj(p[kSibSp].n + p[kParch].n) + ClaimFareAdj(p[kFare].n))

\* C2: when all six attributes are present (age and fare any non-negative
\* number, 0 included) the result is clamp(0.5 + sexAdj + classAdj + ageAdj +
\* familyAdj + fareAdj, 0, 1) with the adjustments applied to the present
\* values, and survived = (probability > 0.5).
C2_ScoreFormula ==
  (IsResult(result) /\ AllPresent(passenger)) =>
     result = [probability |-> ClaimProbability(passenger),
               survived |-> ClaimProbability(passenger) > 50]

\* The two results of a male/female pair that differs in nothing else.
FemaleOf(p) == IF p[kSex] = Str(sFemale) THEN p ELSE SexTwin(p)
MaleOf(p) == IF p[kSex] = Str(sMale) THEN p ELSE SexTwin(p)
FemaleProbability == IF passenger[kSex] = Str(sFemale) THEN result.probability ELSE twinResult.probability
MaleProbability == IF passenger[kSex] = Str(sMale) THEN result.probability ELSE twinResult.probability
PairScored == HasBinarySex(passenger) /\ IsResult(result) /\ IsResult(twinResult)

NewlineCount(text) == Cardinality({i \in 1..Len(text) : text[i] = "\n"})

\* The number of lines of a text: each newline ends a line, and a non-empty
\* remainder after the last newline is a line too.
LineCount(text) ==
  NewlineCount(text) + (IF text # <<>> /\ text[Len(text)] # "\n" THEN 1 ELSE 0)

\* The k-th line of a text, found from the positions of its newlines.
LineAt(text, k) ==
  LET ends == {i \in 1..Len(text) : text[i] = "\n"} \cup {Len(text) + 1}
      endsBefore(i) == Cardinality({j \in ends : j < i})
      stop == CHOOSE i \in ends : endsBefore(i) = k - 1
      start == IF k = 1 THEN 1 ELSE (CHOOSE i \in ends : endsBefore(i) = k - 2) + 1
  IN SubStr(text, start, stop - 1)

\* C5 as stated: one record per line after the header, so the output length is
\* the line count minus one (no row skipped), and no lines give no records.
C5_OneRecordPerLine ==
  pc = "parsed" => Len(data) = Max2(LineCount(csvText) - 1, 0)

\* C5 amended: the lines are those of the text after trim() has removed the
\* whitespace (blank lines included) at both ends: the output holds exactly one
\* record per line of the trimmed text after its first, in line order, blank
\* interior lines included.
C5_OneRecordPerTrimmedLine ==
  pc = "parsed" =>
     LET trimmed == Trim(csvText)
         headers == Split(LineAt(trimmed, 1), ",")
     IN /\ Len(data) = NewlineCount(trimmed)
        /\ \A i \in 1..Len(data) : data[i] = ParseRow(headers, LineAt(trimmed, i + 1))

\* C5 witness: a text with a blank line at its end has been parsed into two records.
C5_Witness ==
  pc = "parsed" /\ Len(data) = 2 /\ csvText[Len(csvText)] = "\n"

\* The text of column `key` in line `line`: the last column with that header wins.
RawField(headers, line, key) ==
  LET k == CHOOSE j \in 1..Len(headers) :
             headers[j] = key /\ \A m \in 1..Len(headers) : headers[m] = key => m <= j
  IN ValueAt(parseCSVLine(line), k)

\* C7: in every data row, an integer column whose text is empty or unparsable
\* is 0, and Age and Fare are null when the text is empty or unparsable;
\* no numeric column is ever NaN.
C7_MalformedNumbersDefault ==
  pc = "parsed" =>
     LET trimmed == Trim(csvText)
         headers == Split(LineAt(trimmed, 1), ",")
     IN \A i \in 1..Len(data) : \A key \in DOMAIN data[i] :
          LET raw == RawField(headers, LineAt(trimmed, i + 1), key)
              unparsable == ParseDecimalPrefix(raw) = NaN
          IN /\ key \in IntHeaders =>
                  /\ data[i][key].t = "num"
                  /\ unparsable => data[i][key] = Num(0)
             /\ key \in FloatHeaders =>
                  /\ data[i][key].t \in {"num", "null"}
                  /\ unparsable => data[i][key] = Null

(***************************************************************************)
(* Property of parseCSVLine (checked under SpecLine)                       *)
(***************************************************************************)
\* C6: a field wrapped in double quotes that contains commas (and no quote)
\* comes back as one field, the original text without the quotes and with its
\* commas, and the fields before and after it keep their positions.
C6_QuotedFieldRoundTrip ==
  pc = "split" => fields = lineParts.before \o <<lineParts.inner>> \o lineParts.after

\* C6 witness: a line with a field before and a field after the quoted one has been split.
C6_Witness ==
  pc = "split" /\ Len(lineParts.before) = 1 /\ Len(lineParts.after) = 1 /\ Len(fields) = 3

(***************************************************************************)
(* Property of calculateModelStats (checked under SpecStats)               *)
(***************************************************************************)
VerdictMatchesLabel(p) ==
  \/ predictSurvival(p).survived /\ Get(p, kSurvived) = Num(1)
  \/ ~predictSurvival(p).survived /\ Get(p, kSurvived) = Num(0)

ExpectedStats(records) ==
  LET total == Len(records)
      matching == Cardinality({i \in 1..total : VerdictMatchesLabel(records[i])})
      labelled1 == Cardinality({i \in 1..total : Get(records[i], kSurvived) = Num(1)})
  IN [accuracy |-> [nan |-> total = 0, num |-> 100 * matching, den |-> total],
      totalPassengers |-> total,
      survivedCount |-> labelled1,
      deathCount |-> total - labelled1]

\* C8: for a non-empty record sequence, accuracy = 100 * (records whose verdict
\* matches the label) / total, within [0,100]; survivedCount is the number of
\* records labelled 1, deathCount = total - survivedCount, and the two add up
\* to totalPassengers.
C8_StatsOfRecords ==
  (pc = "summarized" /\ Len(data) > 0) =>
     /\ modelStats = ExpectedStats(data)
     /\ ~modelStats.accuracy.nan
     /\ 0 <= modelStats.accuracy.num
     /\ modelStats.accuracy.num <= 100 * modelStats.accuracy.den
     /\ modelStats.survivedCount + modelStats.deathCount = modelStats.totalPassengers
     /\ modelStats.totalPassengers = Len(data)

\* C8 witness: three records summarized, one labelled 1, two verdicts matching.
C8_Witness ==
  /\ pc = "summarized"
  /\ Len(data) = 3
  /\ modelStats.survivedCount = 1
  /\ modelStats.accuracy.num = 200

(***************************************************************************)
(* Properties of the component (checked under Spec and FairSpec)           *)
(***************************************************************************)
Predicted == prediction # Null
PredictedPassenger == FormPassenger(predictedFrom)
CountOrZero(v) == IF v.t = "num" THEN v.n ELSE 0

\* The probability when the rules contribute the given adjustments.
ProbabilityOf(sexAdj, classAdj, ageAdj, familyAdj, fareAdj) ==
  ClaimClamp(50 + sexAdj + classAdj + ageAdj + familyAdj + fareAdj)

NaNAgeContributesZero ==
  (Predicted /\ predictedFrom.age = NaN) =>
     LET p == PredictedPassenger
     IN prediction.probability = ProbabilityOf(SexAdj(p), ClassAdj(p), 0, FamilyAdj(p), FareAdj(p))

NaNFareContributesZero ==
  (Predicted /\ predictedFrom.fare = NaN) =>
     LET p == PredictedPassenger
     IN prediction.probability = ProbabilityOf(SexAdj(p), ClassAdj(p), AgeAdj(p), FamilyAdj(p), 0)

C9_OneShotLoad ==
  /\ [](pc = "fetching" => loading /\ data = <<>> /\ modelStats = Null)
  /\ [](pc \in {"ready", "failed"} => ~loading)
  /\ <>(~loading)
  /\ [][~loading => ~loading']_vars
  /\ [][pc # "fetching" => (pc' = pc /\ data' = data /\ modelStats' = modelStats)]_vars
  /\ [](pc = "failed" => data = <<>> /\ modelStats = Null)
  /\ [](pc = "ready" => /\ data = parseCSV(csvText)
                        /\ modelStats # Null
                        /\ modelStats = ExpectedStats(data))

\* C9 witness: a load succeeded with two records.
C9_Witness == pc = "ready" /\ ~loading /\ Len(data) = 2 /\ modelStats.totalPassengers = 2

\* C10: the prediction is absent before the first Predict trigger; afterwards
\* it is predictSurvival of the form values held at the most recent trigger;
\* only handlePredict changes it (an edit or the end of the load does not).
C10_PredictionFollowsTrigger ==
  /\ [](predictedFrom = Null => prediction = Null)
  /\ [](predictedFrom # Null => prediction = predictSurvival(FormPassenger(predictedFrom)))
  /\ [][(prediction' # prediction \/ predictedFrom' # predictedFrom)
          => (~loading /\ predictedFrom' = input /\ input' = input)]_vars

\* C10 witness: the form was edited after a prediction, which still shows the old values' result.
C10_Witness ==
  /\ prediction # Null
  /\ predictedFrom # input
  /\ prediction # predictSurvival(FormPassenger(input))

====
